---- MODULE Spec2Model ----
(***************************************************************************)
(* Model of Realized_Vol_Python.py: anchor extraction (extract_sod_eod),   *)
(* one Monte Carlo trial (calculate_realized_volatility), the per-day      *)
(* aggregation (monte_carlo_day) and the process-pool batch                *)
(* (monte_carlo_simulation).                                               *)
(*                                                                         *)
(* Prices are naturals (0 is a price the CSV can hold).  Floating-point    *)
(* results are abstracted to their IEEE class:                             *)
(*   "nan", "ninf" (-inf), "neg", "zero", "pos", "inf" (+inf), and "fin"   *)
(*   (finite, sign unknown).  Overflow of finite operands is not modelled. *)
(***************************************************************************)
EXTENDS Integers, Sequences, FiniteSets, TLC

\* ------------------------------------------------------------------ bounds
MaxObs == 8        \* longest day handed to one trial
MaxRows == 3       \* rows of the frame handed to extract_sod_eod
MaxPrice == 2      \* prices of that frame are 1..MaxPrice
MaxDays == 2       \* trading days of a batch
MaxTrials == 2     \* num_simulations ranges over 0..MaxTrials
NumWorkers == 2    \* worker processes of the pool

\* ------------------------------------------------------- program constants
MinObs == 6        \* if len(prices) < 6: return None
SampleSize == 5    \* size=5
AnnFactor == 16    \* * 16

\* ------------------------------------------------------------- variables
VARIABLES
  \* one call of calculate_realized_volatility
  prices, sod, eod, tpc, trial,
  \* one call of extract_sod_eod
  frame, apc, acur, anchors,
  \* one call of monte_carlo_simulation
  df, sod_eod, num_simulations, pc, gcur, futures, unit, worker, rng,
  gathered, completed, results, returned

tvars == <<prices, sod, eod, tpc, trial>>
avars == <<frame, apc, acur, anchors>>
svars == <<df, sod_eod, num_simulations, pc, gcur, futures, unit, worker,
           rng, gathered, completed, results, returned>>
vars == <<tvars, avars, svars>>

\* ------------------------------------------------------ sequence helpers
Range(s) == {s[i] : i \in DOMAIN s}

IsInjective(s) == \A i, j \in DOMAIN s : i # j => s[i] # s[j]

RECURSIVE Insert(_, _)
Insert(x, s) ==
  IF s = <<>> THEN <<x>>
  ELSE IF x <= Head(s) THEN <<x>> \o s
  ELSE <<Head(s)>> \o Insert(x, Tail(s))

\* np.sort on a 1-d integer array
RECURSIVE NpSort(_)
NpSort(s) == IF s = <<>> THEN <<>> ELSE Insert(Head(s), NpSort(Tail(s)))

SetMin(S) == CHOOSE x \in S : \A y \in S : x <= y

\* the keys of a pandas groupby (sort=True): ascending, each once
RECURSIVE SortedKeys(_)
SortedKeys(S) ==
  IF S = {} THEN <<>> ELSE <<SetMin(S)>> \o SortedKeys(S \ {SetMin(S)})

\* ------------------------------------------- floating point, by IEEE class
\* np.log(a / b) for prices a, b >= 0
LogRatio(a, b) ==
  IF b = 0 THEN (IF a = 0 THEN "nan" ELSE "inf")
  ELSE IF a = 0 THEN "ninf"
  ELSE IF a > b THEN "pos"
  ELSE IF a = b THEN "zero"
  ELSE "neg"

\* x ** 2
Square(c) ==
  CASE c = "nan" -> "nan"
    [] c \in {"inf", "ninf"} -> "inf"
    [] c = "zero" -> "zero"
    [] c \in {"pos", "neg"} -> "pos"
    [] OTHER -> "fin"

\* np.mean of a non-empty array; of an empty one it is nan
Mean(s) ==
  LET R == Range(s) IN
  IF s = <<>> \/ "nan" \in R \/ {"inf", "ninf"} \subseteq R THEN "nan"
  ELSE IF "inf" \in R THEN "inf"
  ELSE IF "ninf" \in R THEN "ninf"
  ELSE IF R = {"zero"} THEN "zero"
  ELSE IF R \subseteq {"zero", "pos"} THEN "pos"
  ELSE IF R \subseteq {"zero", "neg"} THEN "neg"
  ELSE "fin"

\* np.sqrt
Sqrt(c) ==
  CASE c \in {"nan", "ninf", "neg"} -> "nan"
    [] c = "fin" -> "nan"
    [] OTHER -> c

\* x * k for a class x and an integer k
Scale(c, k) ==
  IF c = "nan" THEN "nan"
  ELSE IF k = 0 THEN (IF c \in {"inf", "ninf"} THEN "nan" ELSE "zero")
  ELSE IF k > 0 THEN c
  ELSE CASE c = "pos" -> "neg" [] c = "neg" -> "pos" [] c = "inf" -> "ninf"
         [] c = "ninf" -> "inf" [] OTHER -> c

FiniteNonNeg == {"zero", "pos"}

\* ------------------------------------- calculate_realized_volatility
\* np.random.choice(population, size=5, replace=False): every sequence of
\* 5 pairwise distinct values of 0..population-1; ValueError (no outcome)
\* when the population is smaller than the sample.
Choices(population) ==
  {s \in [1..SampleSize -> 0..(population - 1)] : IsInjective(s)}

ChoiceTable == [population \in 0..MaxObs |-> Choices(population)]

ChoiceRaises(population) == population < SampleSize

\* variant: the shift by one forgotten, np.sort(choice)
RandomIndicesNoShift(draw) == NpSort(draw)

\* np.sort(choice + 1)
RandomIndices(draw) == NpSort([i \in DOMAIN draw |-> draw[i] + 1])

\* sod -> P[i1] -> ... -> P[i5] -> eod; P is 0-based in the code
Chain(P, s, e, idx) == <<s>> \o [k \in DOMAIN idx |-> P[idx[k] + 1]] \o <<e>>

LogReturns(c) == [k \in 1..(Len(c) - 1) |-> LogRatio(c[k + 1], c[k])]

SquareAll(s) == [k \in DOMAIN s |-> Square(s[k])]

Volatility(c) == Scale(Sqrt(Mean(SquareAll(LogReturns(c)))), AnnFactor)

\* the draws a call can make: none when it returns or raises before sampling
Draws(P) ==
  IF Len(P) < MinObs \/ ChoiceRaises(Len(P) - 2) THEN {<<>>}
  ELSE ChoiceTable[Len(P) - 2]

\* the values random_indices can take, by population
IndexTable ==
  [population \in 0..MaxObs |->
     {RandomIndices(draw) : draw \in ChoiceTable[population]}]

IndexSets(P) ==
  IF Len(P) < MinObs \/ ChoiceRaises(Len(P) - 2) THEN {<<>>}
  ELSE IndexTable[Len(P) - 2]

\* the call from the value of random_indices on
TrialAt(P, s, e, idx) ==
  IF Len(P) < MinObs
    THEN [kind |-> "none", drawn |-> <<>>, indices |-> <<>>, chain |-> <<>>,
          value |-> "None"]
  ELSE IF ChoiceRaises(Len(P) - 2)
    THEN [kind |-> "raise", drawn |-> <<>>, indices |-> <<>>, chain |-> <<>>,
          value |-> "None"]
  ELSE [kind |-> "value", drawn |-> <<>>, indices |-> idx,
        chain |-> Chain(P, s, e, idx),
        value |-> Volatility(Chain(P, s, e, idx))]

\* the outcome of one call, given the draw of np.random.choice
calculate_realized_volatility(P, s, e, draw) ==
  [TrialAt(P, s, e, RandomIndices(draw)) EXCEPT !.drawn = draw]

\* what a caller sees of the call: how it ended and the value returned,
\* over every draw the generator can make
Seen(t) == [kind |-> t.kind, value |-> t.value]

TrialOutcomes(P, s, e) ==
  {Seen(TrialAt(P, s, e, idx)) : idx \in IndexSets(P)}

NoTrial == [kind |-> "idle", drawn |-> <<>>, indices |-> <<>>, chain |-> <<>>,
            value |-> "None"]

\* inputs of one call: rising prices with at most one zero, or flat prices
PriceSeqs(n) ==
  {[i \in 1..n |-> IF i = k THEN 0 ELSE i] : k \in 0..n}
    \cup {[i \in 1..n |-> 1]}

AnchorVals == {0, 1}

\* idle values of the variables a specification does not use
TrialIdle ==
  /\ prices = <<>> /\ sod = 0 /\ eod = 0 /\ tpc = "idle" /\ trial = NoTrial

AnchorIdle ==
  /\ frame = <<>> /\ apc = "idle" /\ acur = 0 /\ anchors = <<>>

BatchIdle ==
  /\ df = <<>> /\ sod_eod = <<>> /\ num_simulations = 0 /\ pc = "idle"
  /\ gcur = 0 /\ futures = <<>> /\ unit = <<>> /\ worker = <<>>
  /\ rng = <<>> /\ gathered = <<>> /\ completed = <<>> /\ results = <<>>
  /\ returned = [kind |-> "idle", frame |-> <<>>]

TrialInit ==
  /\ \E n \in 0..MaxObs : prices \in PriceSeqs(n)
  /\ sod \in AnchorVals
  /\ eod \in AnchorVals
  /\ tpc = "call"
  /\ trial = NoTrial
  /\ AnchorIdle /\ BatchIdle

\* one call of calculate_realized_volatility(prices, sod, eod)
TrialCall ==
  /\ tpc = "call"
  /\ \E draw \in Draws(prices) :
       trial' = calculate_realized_volatility(prices, sod, eod, draw)
  /\ tpc' = "done"
  /\ UNCHANGED <<prices, sod, eod, avars, svars>>

TrialNext == TrialCall

SpecTrial == TrialInit /\ [][TrialNext]_vars

\* ------------------------------------------------------- extract_sod_eod
\* timestamps are seconds since midnight of day 0
DateOf(ts) == ts \div 86400

\* strftime('%H:%M'): <<hour, minute>>, the seconds are dropped
HourMinute(ts) ==
  <<(ts % 86400) \div 3600, (ts % 3600) \div 60>>

SessionOpen == <<9, 0>>
SessionClose == <<17, 29>>

\* comparison of two zero-padded 'HH:MM' strings
HMLeq(a, b) == a[1] < b[1] \/ (a[1] = b[1] /\ a[2] <= b[2])

\* the filter of load_and_preprocess_data
InSession(ts) ==
  HMLeq(SessionOpen, HourMinute(ts)) /\ HMLeq(HourMinute(ts), SessionClose)

\* 08:59:30 09:00:00 09:00:30 12:00:00 17:29:00 17:29:10 17:29:30 17:30:00
ClockSamples == {32370, 32400, 32430, 43200, 62940, 62950, 62970, 63000}

TimeSamples == {d * 86400 + c : d \in 0..1, c \in ClockSamples}

Rows == [ts : TimeSamples, price : 1..MaxPrice]

\* frames as load_and_preprocess_data returns them for a file with one row
\* per timestamp: sorted by timestamp and
\* restricted to the session
Frames ==
  UNION {{f \in [1..n -> Rows] :
            /\ \A i \in 1..n : InSession(f[i].ts)
            /\ \A i \in 1..(n - 1) : f[i].ts < f[i + 1].ts} : n \in 0..MaxRows}

GroupKeys(f) == SortedKeys({DateOf(f[i].ts) : i \in DOMAIN f})

IsDate(r, date) == DateOf(r.ts) = date

Group(f, date) == SelectSeq(f, LAMBDA r : IsDate(r, date))

AtMinute(data, hm) == SelectSeq(data, LAMBDA r : HourMinute(r.ts) = hm)

\* the body of the loop of extract_sod_eod for one group
SodOf(data) ==
  LET sod_row == AtMinute(data, SessionOpen) IN
  IF sod_row = <<>> THEN data[1].price ELSE sod_row[1].price

EodOf(data) ==
  LET eod_row == AtMinute(data, SessionClose) IN
  IF eod_row = <<>> THEN data[Len(data)].price ELSE eod_row[1].price

AnchorInit ==
  /\ frame \in Frames
  /\ apc = "loop"
  /\ acur = 1
  /\ anchors = <<>>
  /\ TrialIdle /\ BatchIdle

\* one iteration of `for date, data in grouped_data`
ExtractGroup ==
  /\ apc = "loop"
  /\ acur <= Len(GroupKeys(frame))
  /\ LET date == GroupKeys(frame)[acur]
         data == Group(frame, date)
     IN anchors' = [d \in DOMAIN anchors \cup {date} |->
                      IF d = date THEN <<SodOf(data), EodOf(data)>>
                      ELSE anchors[d]]
  /\ acur' = acur + 1
  /\ UNCHANGED <<frame, apc, tvars, svars>>

\* return sod_eod
ExtractReturn ==
  /\ apc = "loop"
  /\ acur > Len(GroupKeys(frame))
  /\ apc' = "done"
  /\ UNCHANGED <<frame, acur, anchors, tvars, svars>>

AnchorNext == ExtractGroup \/ ExtractReturn

SpecAnchor == AnchorInit /\ [][AnchorNext]_vars

\* ------------------------------------------------------- monte_carlo_day
\* volatilities = [v for v in volatilities if v is not None]
NotNone(v) == v # "None"

\* np.sqrt(np.mean(np.square(volatilities)))
RmsOf(vs) == Sqrt(Mean(SquareAll(vs)))

\* variant: `if volatilities` forgotten, the aggregate of an empty list
DayResultNoGuard(vs) == RmsOf(SelectSeq(vs, NotNone))

\* the volatility returned for the trial values vs (None among them)

DayResult(vs) ==
  LET volatilities == SelectSeq(vs, NotNone) IN
  IF volatilities # <<>> THEN RmsOf(volatilities) ELSE "None"

\* the trials before the first one that raises (all of them if none does)
RECURSIVE Completed(_)
Completed(outs) ==
  IF outs = <<>> \/ Head(outs).kind = "raise" THEN <<>>
  ELSE <<Head(outs)>> \o Completed(Tail(outs))

IsValue(t) == t.kind = "value"

\* monte_carlo_day, given the outcomes of its num_simulations calls of
\* calculate_realized_volatility: an exception of a call leaves the list
\* comprehension and the function; draws counts the calls that sampled
monte_carlo_day(outs) ==
  LET done == Completed(outs)
      draws == Len(SelectSeq(done, IsValue))
  IN IF Len(done) < Len(outs)
       THEN [st |-> "exc", value |-> "None", draws |-> draws]
       ELSE [st |-> "ok",
             value |-> DayResult([k \in DOMAIN done |-> done[k].value]),
             draws |-> draws]

\* ------------------------------------------------ monte_carlo_simulation
Dates == 1..MaxDays
Workers == 1..NumWorkers

\* the price arrays of a batch's days: 1, 6 and 7 observations, and 7
\* observations with a zero price
DaySamples ==
  {[i \in 1..n |-> i] : n \in {1, MinObs, MinObs + 1}}
    \cup {[i \in 1..(MinObs + 1) |-> IF i = 3 THEN 0 ELSE i]}

\* the anchors main() passes for a day: those of extract_sod_eod on a day
\* with no observation in the opening and closing minutes
AnchorsOf(P) == <<P[1], P[Len(P)]>>

Finished(u) == u.st \in {"ok", "exc"}

\* variant: a generator re-created for every unit
FreshGenerator(g) == 0

\* the generator a unit starts with: the worker process's global numpy
\* generator as the previous units left it (nothing re-seeds it)
GeneratorAtUnitStart(g) == g

\* variant: results taken as they complete (as_completed)
NextCompleted(fs, g, u) == {d \in Range(fs) \ Range(g) : Finished(u[d])}

\* `for future in futures`: the future whose result() is called next
NextFuture(fs, g, u) ==
  IF Len(g) < Len(fs) THEN {fs[Len(g) + 1]} ELSE {}

\* the list of skipped days a return value r carries: the function returns
\* pd.DataFrame(results) and nothing else
SkipList(r) == <<>>

\* variant: the append moved out of the `if`
KeepAll(v) == TRUE

\* `if volatility is not None`
Keep(v) == v # "None"

BatchInit ==
  /\ \E D \in SUBSET Dates : df \in [D -> DaySamples]
  /\ \E A \in SUBSET (DOMAIN df) : sod_eod = [d \in A |-> AnchorsOf(df[d])]
  /\ num_simulations \in 0..MaxTrials
  /\ pc = "submit"
  /\ gcur = 1
  /\ futures = <<>>
  /\ unit = [d \in DOMAIN df |->
               [st |-> "none", value |-> "None", w |-> 0, seed |-> 0,
                draws |-> 0]]
  /\ worker = [w \in Workers |-> 0]
  /\ rng = [w \in Workers |-> 0]
  /\ gathered = <<>>
  /\ completed = <<>>
  /\ results = <<>>
  /\ returned = [kind |-> "running", frame |-> <<>>]
  /\ TrialIdle /\ AnchorIdle

BatchKeys == SortedKeys(DOMAIN df)

\* for date, data in grouped_data: ... futures.append(executor.submit(...))
SubmitDay ==
  /\ pc = "submit"
  /\ gcur <= Len(BatchKeys)
  /\ BatchKeys[gcur] \in DOMAIN sod_eod
  /\ futures' = Append(futures, BatchKeys[gcur])
  /\ unit' = [unit EXCEPT ![BatchKeys[gcur]].st = "queued"]
  /\ gcur' = gcur + 1
  /\ UNCHANGED <<df, sod_eod, num_simulations, pc, worker, rng, gathered,
                 completed, results, returned, tvars, avars>>

\* if date not in sod_eod: continue
SkipDay ==
  /\ pc = "submit"
  /\ gcur <= Len(BatchKeys)
  /\ BatchKeys[gcur] \notin DOMAIN sod_eod
  /\ gcur' = gcur + 1
  /\ UNCHANGED <<df, sod_eod, num_simulations, pc, futures, unit, worker,
                 rng, gathered, completed, results, returned, tvars, avars>>

\* the submission loop is exhausted; the collection loop starts
EndSubmit ==
  /\ pc = "submit"
  /\ gcur > Len(BatchKeys)
  /\ pc' = "gather"
  /\ UNCHANGED <<df, sod_eod, num_simulations, gcur, futures, unit, worker,
                 rng, gathered, completed, results, returned, tvars, avars>>

\* an idle worker process takes the oldest queued work item
WorkerTake(w) ==
  /\ worker[w] = 0
  /\ \E i \in DOMAIN futures :
       /\ unit[futures[i]].st = "queued"
       /\ \A j \in 1..(i - 1) : unit[futures[j]].st # "queued"
       /\ worker' = [worker EXCEPT ![w] = futures[i]]
       /\ rng' = [rng EXCEPT ![w] = GeneratorAtUnitStart(rng[w])]
       /\ unit' = [unit EXCEPT ![futures[i]] =
                     [st |-> "running", value |-> "None", w |-> w,
                      seed |-> GeneratorAtUnitStart(rng[w]), draws |-> 0]]
  /\ UNCHANGED <<df, sod_eod, num_simulations, pc, gcur, futures, gathered,
                 completed, results, returned, tvars, avars>>

\* the worker runs monte_carlo_day(date, prices, sod, eod, num_simulations)
\* to its return or its exception; every sampling call advances the
\* worker's generator
WorkerRun(w) ==
  /\ worker[w] # 0
  /\ LET d == worker[w] IN
     \E outs \in [1..num_simulations ->
                    TrialOutcomes(df[d], sod_eod[d][1], sod_eod[d][2])] :
       LET r == monte_carlo_day(outs) IN
         /\ unit' = [unit EXCEPT ![d].st = r.st, ![d].value = r.value,
                                 ![d].draws = r.draws]
         /\ rng' = [rng EXCEPT ![w] = @ + r.draws]
  /\ completed' = Append(completed, worker[w])
  /\ worker' = [worker EXCEPT ![w] = 0]
  /\ UNCHANGED <<df, sod_eod, num_simulations, pc, gcur, futures, gathered,
                 results, returned, tvars, avars>>

\* date, volatility = future.result() of a unit that returned
GatherResult ==
  /\ pc = "gather"
  /\ \E d \in NextFuture(futures, gathered, unit) :
       /\ unit[d].st = "ok"
       /\ gathered' = Append(gathered, d)
       /\ results' = IF Keep(unit[d].value)
                       THEN Append(results,
                                   [Date |-> d,
                                    realized_volatility |-> unit[d].value])
                       ELSE results
  /\ UNCHANGED <<df, sod_eod, num_simulations, pc, gcur, futures, unit,
                 worker, rng, completed, returned, tvars, avars>>

\* future.result() of a unit that raised: the exception leaves the loop
GatherRaise ==
  /\ pc = "gather"
  /\ \E d \in NextFuture(futures, gathered, unit) :
       /\ unit[d].st = "exc"
       /\ gathered' = Append(gathered, d)
  /\ pc' = "unwind"
  /\ UNCHANGED <<df, sod_eod, num_simulations, gcur, futures, unit, worker,
                 rng, completed, results, returned, tvars, avars>>

AllFinished == \A i \in DOMAIN futures : Finished(unit[futures[i]])

\* the collection loop is exhausted, the with block exits (all units are
\* finished) and pd.DataFrame(results) is returned
Return ==
  /\ pc = "gather"
  /\ NextFuture(futures, gathered, unit) = {}
  /\ AllFinished
  /\ pc' = "done"
  /\ returned' = [kind |-> "frame", frame |-> results]
  /\ UNCHANGED <<df, sod_eod, num_simulations, gcur, futures, unit, worker,
                 rng, gathered, completed, results, tvars, avars>>

\* the with block exits on the exception: shutdown(wait=True) waits for
\* the remaining units, then the exception leaves monte_carlo_simulation
Unwind ==
  /\ pc = "unwind"
  /\ AllFinished
  /\ pc' = "raised"
  /\ returned' = [kind |-> "exception", frame |-> <<>>]
  /\ UNCHANGED <<df, sod_eod, num_simulations, gcur, futures, unit, worker,
                 rng, gathered, completed, results, tvars, avars>>

Next ==
  \/ SubmitDay
  \/ SkipDay
  \/ EndSubmit
  \/ \E w \in Workers : WorkerTake(w)
  \/ \E w \in Workers : WorkerRun(w)
  \/ GatherResult
  \/ GatherRaise
  \/ Return
  \/ Unwind

Init == BatchInit

Spec == Init /\ [][Next]_vars

\* ======================================================== the claims
Count(s, x) == Cardinality({i \in DOMAIN s : s[i] = x})

FrameDates(f) == [k \in DOMAIN f |-> f[k].Date]

Terminated == pc \in {"done", "raised"}

Started(d) == unit[d].w # 0

PositionOf(d) == CHOOSE i \in DOMAIN futures : futures[i] = d

RECURSIVE SumDraws(_)
SumDraws(S) ==
  IF S = {} THEN 0
  ELSE LET d == CHOOSE x \in S : TRUE IN unit[d].draws + SumDraws(S \ {d})

\* the units worker w has run or is running
UnitsOf(w) == {d \in DOMAIN df : unit[d].w = w}

\* the units the worker of d ran before d
RanBefore(d) ==
  {e \in UnitsOf(unit[d].w) : PositionOf(e) < PositionOf(d)}

\* the time of day of a timestamp, in seconds
ClockOf(ts) == ts % 86400
OpenBoundary == 9 * 3600
CloseBoundary == 17 * 3600 + 29 * 60

\* ---------------------------------------------------------------- C1
\* C1: when monte_carlo_simulation has ended, it has returned a collection
\* (a unit's failure was caught and did not abort the batch), no failed day
\* is in it, and every day whose unit succeeded with a value is in it.
CexC1 ==
  Terminated =>
    /\ returned.kind = "frame"
    /\ \A d \in DOMAIN df :
         /\ unit[d].st = "exc" => d \notin Range(FrameDates(returned.frame))
         /\ (unit[d].st = "ok" /\ unit[d].value # "None")
              => d \in Range(FrameDates(returned.frame))

\* ---------------------------------------------------------------- C2
\* C2: a call of calculate_realized_volatility on fewer than 7 observations
\* returns None, without sampling an index and without raising.
CexC2 ==
  (tpc = "done" /\ Len(prices) < 7) =>
    (trial.kind = "none" /\ trial.drawn = <<>> /\ trial.indices = <<>>)

\* ---------------------------------------------------------------- C3
\* C3: a call that passes the length check and samples uses exactly 5
\* pairwise distinct indices, each in [1, n-2], in strictly increasing
\* order, they are the drawn values shifted by one, and the chain is
\* sod, P[i1], ..., P[i5], eod; a call that passes the check without
\* sampling has raised and used no index.
ThmC3 ==
  (tpc = "done" /\ Len(prices) >= MinObs) =>
    IF trial.kind = "value"
      THEN /\ Len(trial.indices) = 5
           /\ \A k \in 1..5 :
                /\ trial.indices[k] >= 1
                /\ trial.indices[k] <= Len(prices) - 2
           /\ \A k \in 1..4 : trial.indices[k] < trial.indices[k + 1]
           /\ Range(trial.indices) = {x + 1 : x \in Range(trial.drawn)}
           /\ Len(trial.chain) = 7
           /\ trial.chain[1] = sod
           /\ trial.chain[7] = eod
           /\ \A k \in 1..5 : trial.chain[k + 1] = prices[trial.indices[k] + 1]
      ELSE trial.kind = "raise" /\ trial.indices = <<>>

\* a trial on 8 or more observations whose draw was not in ascending order
\* and left an interior index out
WitC3 ==
  /\ tpc = "done"
  /\ trial.kind = "value"
  /\ Len(prices) > 7
  /\ trial.drawn[1] > trial.drawn[2]
  /\ trial.indices[1] > 1

\* ---------------------------------------------------------------- C4
\* C4: the collection monte_carlo_simulation returns is in strictly
\* ascending order of date, whatever the order the units completed in.
ThmC4 ==
  returned.kind = "frame" =>
    \A i, j \in DOMAIN returned.frame :
      i < j => returned.frame[i].Date < returned.frame[j].Date

\* two days in the returned collection, the later one completed first
WitC4 ==
  /\ returned.kind = "frame"
  /\ \E i, j \in DOMAIN completed :
       /\ i < j
       /\ completed[i] > completed[j]
       /\ {completed[i], completed[j]} \subseteq Range(FrameDates(returned.frame))

\* ---------------------------------------------------------------- C5
\* C5: a day is in the returned collection exactly when at least one of
\* its trials produced a value, and no entry has a None volatility.
ThmC5 ==
  returned.kind = "frame" =>
    /\ \A d \in DOMAIN df :
         d \in Range(FrameDates(returned.frame)) <=> unit[d].draws > 0
    /\ \A k \in DOMAIN returned.frame :
         returned.frame[k].realized_volatility # "None"

\* a returned collection with one day in it and without another day whose
\* trials ran and all returned None
WitC5 ==
  /\ returned.kind = "frame"
  /\ num_simulations > 0
  /\ \E d, e \in DOMAIN df :
       /\ d \in Range(FrameDates(returned.frame))
       /\ unit[e].st = "ok"
       /\ unit[e].value = "None"
       /\ e \notin Range(FrameDates(returned.frame))

CexC7 ==
  apc = "done" =>
    \A date \in DOMAIN anchors :
      LET data == Group(frame, date)
          AtOpen == {i \in DOMAIN data : ClockOf(data[i].ts) = OpenBoundary}
          AtClose == {i \in DOMAIN data : ClockOf(data[i].ts) = CloseBoundary}
      IN /\ IF AtOpen # {}
              THEN \E i \in AtOpen : anchors[date][1] = data[i].price
              ELSE anchors[date][1] = data[1].price
         /\ IF AtClose # {}
              THEN \E i \in AtClose : anchors[date][2] = data[i].price
              ELSE anchors[date][2] = data[Len(data)].price

\* ---------------------------------------------------------------- C8
\* C8: a trial on at least 7 observations that returns a value returns a
\* finite, non-negative one.
CexC8 ==
  (tpc = "done" /\ Len(prices) >= 7 /\ trial.kind = "value")
    => trial.value \in FiniteNonNeg

\* ---------------------------------------------------------------- C9
\* C9 as stated: every unit starts from a generator no other unit has
\* advanced, and no generator is drawn from by two units.
CexC9 ==
  /\ \A d \in DOMAIN df : Started(d) => unit[d].seed = 0
  /\ \A w \in Workers :
       Cardinality({d \in UnitsOf(w) : unit[d].draws > 0}) <= 1

\* C9 as amended: a generator belongs to one worker process; it is advanced
\* by every sampling call of every unit that worker runs and by nothing
\* else, so a unit starts from the generator as the units its worker ran
\* before it left it.
ThmC9 ==
  /\ \A w \in Workers : rng[w] = SumDraws(UnitsOf(w))
  /\ \A d \in DOMAIN df :
       Started(d) => unit[d].seed = SumDraws(RanBefore(d))

\* a finished unit whose worker's generator had been advanced by an
\* earlier unit
WitC9 ==
  \E d \in DOMAIN df :
    /\ Finished(unit[d])
    /\ unit[d].seed > 0
    /\ unit[d].draws > 0

\* --------------------------------------------------------------- C10
\* C10: every day with an anchor pair is submitted exactly once, no result
\* is waited for before the last submission, and when the call has ended
\* every submitted unit's result has been gathered exactly once and the
\* collection holds at most one entry per date, of submitted dates only.
CexC10 ==
  /\ gathered # <<>> => gcur > Len(BatchKeys)
  /\ \A d \in DOMAIN df : Count(futures, d) <= 1
  /\ Terminated =>
       /\ \A d \in DOMAIN df : Count(futures, d) = 1 <=> d \in DOMAIN sod_eod
       /\ \A i \in DOMAIN futures : Count(gathered, futures[i]) = 1
       /\ \A d \in DOMAIN df : Count(FrameDates(results), d) <= 1
       /\ Range(FrameDates(results)) \subseteq Range(futures)
====
